---- MODULE Spec2Model ----
(***************************************************************************)
(* Model of sca_rhythm (src/sca_rhythm/__init__.py): the Workflow engine   *)
(* that sequences celery tasks, the WorkflowTask hooks, the workflow_meta  *)
(* collection and the celery result backend as the engine sees them.       *)
(*                                                                         *)
(* Conventions.  A python value that may be None is a sequence of length   *)
(* 0 (None) or 1 (the value).  Python list indices are 0-based where the   *)
(* code compares them (get_pending_step), TLA+ sequences are 1-based.      *)
(* A dict key that is absent is the value Absent.  step.get('task_runs',   *)
(* []) of a step without the key is the empty sequence.                    *)
(***************************************************************************)
EXTENDS Naturals, Integers, Sequences, FiniteSets, TLC

VARIABLES
    wf_col,   \* the workflow_meta collection: _id -> document
    units,    \* the backend's units of work, indexed by task_id
    eng,      \* the caller's Workflow instance: None or its self.workflow
    clock,    \* datetime.utcnow(), a logical clock
    last      \* the operation that just ran: inputs, result, backend calls

vars == <<wf_col, units, eng, clock, last>>

----------------------------------------------------------------------------
(* Bounds of the model *)

MaxSteps == 3        \* longest step list handed to the constructor
MaxWorkflows == 1    \* workflow documents, and identifiers uuid4 draws from
MaxMessages == 2     \* task messages put on the broker (dispatches and retries)
MaxVal == 1          \* largest value in an argument list or a return value
MaxArgLen == 1       \* longest positional argument list of a caller
MaxRetLen == 2       \* longest return value of a task
MaxHist == 2         \* longest run history drawn for the status function

----------------------------------------------------------------------------
(* Values *)

None == <<>>
Some(x) == <<x>>
Absent == "<absent>"

PENDING == "PENDING"
STARTED == "STARTED"
RETRY == "RETRY"
REVOKED == "REVOKED"
FAILURE == "FAILURE"
SUCCESS == "SUCCESS"
PROGRESS == "PROGRESS"

States == {PENDING, STARTED, RETRY, REVOKED, FAILURE, SUCCESS, PROGRESS}

Vals == 1..MaxVal

SeqsUpTo(S, n) == UNION {[1..k -> S] : k \in 0..n}

ArgLists == SeqsUpTo(Vals, MaxArgLen)
RetVals == SeqsUpTo(Vals, MaxRetLen)

\* step dicts a caller may hand to the constructor
StepDicts ==
    { [name |-> "a", task |-> "t1"],
      [name |-> "b", task |-> "t2"],
      [name |-> "c", task |-> "t1"],
      [name |-> "", task |-> "t1"],
      [name |-> Absent, task |-> "t2"],
      [name |-> "a", task |-> Absent] }

StepLists == SeqsUpTo(StepDicts, MaxSteps)

WorkflowIds == 1..MaxWorkflows

Range(s) == {s[i] : i \in DOMAIN s}

Last(s) == s[Len(s)]

----------------------------------------------------------------------------
(* The record of the operation that just ran *)

NoOp ==
    [op |-> "none", unit |-> 0, steps |-> <<>>, force |-> FALSE, args |-> None,
     ret |-> "", info |-> None, err |-> "none",
     sent |-> <<>>, revoked |-> <<>>, col |-> <<>>, loaded |-> None]

Backend == [NoOp EXCEPT !.op = "backend"]

----------------------------------------------------------------------------
(* Workflow.__init__ *)

\* as duplicates, without subtracting the one occurrence every item has
duplicates_counting_all(items) ==
    {x \in Range(items) : Cardinality({i \in DOMAIN items : items[i] = x}) > 0}

duplicates(items) ==
    {x \in Range(items) : Cardinality({i \in DOMAIN items : items[i] = x}) - 1 > 0}

\* the assert statements of one step of the loop: the first that fails
step_assertions(step) ==
    IF step.name = Absent THEN "step does not have name key"
    ELSE IF step.name = "" THEN "step name is empty"
    ELSE IF step.task = Absent THEN "step does not have task key"
    ELSE "none"

\* as steps_assertions, without the check of duplicate names
steps_assertions_no_duplicates(steps) ==
    IF ~(Len(steps) > 0) THEN "steps is empty"
    ELSE LET failing == {i \in DOMAIN steps : step_assertions(steps[i]) # "none"}
         IN  IF failing # {}
             THEN step_assertions(steps[CHOOSE i \in failing : \A j \in failing : i <= j])
             ELSE "none"

\* the assert statements of the constructor, in the order they run: the
\* message of the first that fails, or "none"
steps_assertions(steps) ==
    IF ~(Len(steps) > 0) THEN "steps is empty"
    ELSE LET failing == {i \in DOMAIN steps : step_assertions(steps[i]) # "none"}
         IN  IF failing # {}
             THEN step_assertions(steps[CHOOSE i \in failing : \A j \in failing : i <= j])
             ELSE IF ~(Cardinality(duplicates([i \in DOMAIN steps |-> steps[i].name])) = 0)
                  THEN "Steps with duplicate names"
                  ELSE "none"

new_workflow(id, steps, now) ==
    [id |-> id, created_at |-> now, updated_at |-> 0,
     steps |-> [i \in DOMAIN steps |->
                  [name |-> steps[i].name, task |-> steps[i].task, task_runs |-> <<>>]]]

----------------------------------------------------------------------------
(* The execution backend: app.send_task, app.backend, app.control *)

\* the unit of work that send_task(task, args, kwargs) puts on the broker;
\* parent is the task_id of the unit whose hook sent it (celery's parent_id),
\* 0 when a caller of start or resume sent it; outcome is the final status the
\* backend reported for it, which outlives the stored record; prior marks a
\* unit that was sent before the behaviour a specification explores begins
new_unit(task, args, workflow_id, step, parent) ==
    [task |-> task, args |-> args, workflow_id |-> workflow_id, step |-> step,
     parent |-> parent, phase |-> "queued", status |-> PENDING, stored |-> FALSE,
     revoke |-> FALSE, retries |-> 0, workflow |-> None, outcome |-> PENDING,
     prior |-> FALSE]

\* task messages put on the broker since the initial state: one per dispatch,
\* one per retry
Messages ==
    Cardinality({t \in DOMAIN units : ~units[t].prior})
      + Cardinality({<<t, k>> \in (DOMAIN units) \X (1..MaxMessages) :
                        k <= units[t].retries})

\* app.backend.get_status(task_id)
get_status(task_id) == units[task_id].status

----------------------------------------------------------------------------
(* Status derivation *)

get_step_status(step) ==
    LET task_runs == step.task_runs
    IN  IF Len(task_runs) > 0
        THEN get_status(Last(task_runs).task_id)
        ELSE PENDING

\* as get_pending_step, taking the last step whose status is not SUCCESS
get_pending_step_last(workflow) ==
    LET statuses == [i \in DOMAIN workflow.steps |-> get_step_status(workflow.steps[i])]
        pending == {i \in DOMAIN statuses : statuses[i] # SUCCESS}
    IN  IF pending = {} THEN None
        ELSE LET i == CHOOSE k \in pending : \A j \in pending : k >= j
             IN  Some(<<i - 1, statuses[i]>>)

\* None, or Some(<<i, status>>) with i the 0-based index of the first step
\* whose status is not SUCCESS
get_pending_step(workflow) ==
    LET statuses == [i \in DOMAIN workflow.steps |-> get_step_status(workflow.steps[i])]
        pending == {i \in DOMAIN statuses : statuses[i] # SUCCESS}
    IN  IF pending = {} THEN None
        ELSE LET i == CHOOSE k \in pending : \A j \in pending : k <= j
             IN  Some(<<i - 1, statuses[i]>>)

\* as get_workflow_status, with RETRY missing from the in-flight statuses
get_workflow_status_without_retry(workflow) ==
    LET first_step_not_succeeded == get_pending_step(workflow)
    IN  IF first_step_not_succeeded # None
        THEN LET step_idx == first_step_not_succeeded[1][1]
                 task_status == first_step_not_succeeded[1][2]
             IN  IF step_idx = 0 /\ task_status = PENDING THEN PENDING
                 ELSE IF task_status \in {STARTED, PENDING} THEN STARTED
                 ELSE task_status
        ELSE SUCCESS

get_workflow_status(workflow) ==
    LET first_step_not_succeeded == get_pending_step(workflow)
    IN  IF first_step_not_succeeded # None
        THEN LET step_idx == first_step_not_succeeded[1][1]
                 task_status == first_step_not_succeeded[1][2]
             IN  IF step_idx = 0 /\ task_status = PENDING THEN PENDING
                 ELSE IF task_status \in {STARTED, RETRY, PENDING} THEN STARTED
                 ELSE task_status
        ELSE SUCCESS

\* the steps from the first one named step_name on (itertools.dropwhile)
dropwhile_name(steps, step_name) ==
    LET hits == {i \in DOMAIN steps : steps[i].name = step_name}
    IN  IF hits = {} THEN <<>>
        ELSE LET k == CHOOSE i \in hits : \A j \in hits : i <= j
             IN  SubSeq(steps, k, Len(steps))

\* the 1-based index of the step get_step returns, 0 for None
get_step(workflow, step_name) ==
    LET it == dropwhile_name(workflow.steps, step_name)
    IN  IF Len(it) > 0 THEN Len(workflow.steps) - Len(it) + 1 ELSE 0

\* as get_next_step, without skipping the step named
get_next_step_without_skip(workflow, step_name) ==
    LET it == dropwhile_name(workflow.steps, step_name)
    IN  IF Len(it) > 0 THEN Some(it[1]) ELSE None

\* as get_next_step, taking the last of the steps that follow
get_next_step_last(workflow, step_name) ==
    LET it == dropwhile_name(workflow.steps, step_name)
        skip_one_it == SubSeq(it, 2, Len(it))
    IN  IF Len(skip_one_it) > 0 THEN Some(skip_one_it[Len(skip_one_it)]) ELSE None

get_next_step(workflow, step_name) ==
    LET it == dropwhile_name(workflow.steps, step_name)
        skip_one_it == SubSeq(it, 2, Len(it))
    IN  IF Len(skip_one_it) > 0 THEN Some(skip_one_it[1]) ELSE None

\* the backend's stored record of a run, None when it has none
get_task_instance(task_id) ==
    IF units[task_id].stored THEN Some(units[task_id]) ELSE None

get_last_run_task_instance(step) ==
    LET task_runs == step.task_runs
    IN  IF Len(task_runs) > 0
        THEN get_task_instance(Last(task_runs).task_id)
        ELSE None

----------------------------------------------------------------------------
(* Workflow: construction *)

\* Workflow(app, steps=steps): validate, then insert_one
Create(steps) ==
    LET failed == steps_assertions(steps)
    IN  IF failed # "none"
        THEN /\ last' = [NoOp EXCEPT !.op = "create", !.steps = steps,
                                     !.err = "AssertionError", !.ret = failed,
                                     !.col = wf_col]
             /\ UNCHANGED <<wf_col, units, eng, clock>>
        ELSE \E id \in WorkflowIds \ DOMAIN wf_col :
                LET workflow == new_workflow(id, steps, clock)
                IN  /\ wf_col' = (id :> workflow) @@ wf_col
                    /\ eng' = Some(workflow)
                    /\ clock' = clock + 1
                    /\ last' = [NoOp EXCEPT !.op = "create", !.steps = steps,
                                            !.unit = id, !.col = wf_col]
                    /\ UNCHANGED units

\* Workflow(app, workflow_id=workflow_id): find_one
Load(workflow_id) ==
    /\ IF workflow_id \in DOMAIN wf_col
       THEN /\ eng' = Some(wf_col[workflow_id])
            /\ last' = [NoOp EXCEPT !.op = "load", !.unit = workflow_id, !.col = wf_col]
       ELSE /\ eng' = eng
            /\ last' = [NoOp EXCEPT !.op = "load", !.unit = workflow_id, !.col = wf_col,
                                    !.err = "Exception"]
    /\ UNCHANGED <<wf_col, units, clock>>

----------------------------------------------------------------------------
(* Workflow: start, pause, resume, status *)

\* a send_task that raises leaves start and resume without effect, a step
\* that changes nothing; the hooks, where it leaves a step undispatched, model it.
\* start sends kwargs workflow_id and step; any further keyword arguments of
\* the caller travel with them and are not part of the unit here
Start(args) ==
    /\ eng # None
    /\ Messages < MaxMessages
    /\ LET workflow == eng[1]
           first_step == workflow.steps[1]
           task_id == Len(units) + 1
       IN  /\ units' = Append(units, new_unit(first_step.task, args, workflow.id,
                                              first_step.name, 0))
           /\ last' = [NoOp EXCEPT !.op = "start", !.args = Some(args),
                                   !.sent = <<task_id>>, !.col = wf_col]
    /\ UNCHANGED <<wf_col, eng, clock>>

\* as pause, with FAILURE missing from the statuses it leaves alone
pause_revoking_failed(workflow) ==
    LET first_step_not_succeeded == get_pending_step(workflow)
        i == first_step_not_succeeded[1][1]
        status == first_step_not_succeeded[1][2]
        step == workflow.steps[i + 1]
        task_runs == step.task_runs
    IN  IF /\ first_step_not_succeeded # None
           /\ status \notin {SUCCESS}
           /\ Len(task_runs) > 0
        THEN [paused |-> TRUE, task_id |-> Last(task_runs).task_id, step |-> i + 1]
        ELSE [paused |-> FALSE, task_id |-> 0, step |-> 0]

\* what pause() decides on self.workflow: whether it revokes, which task_id,
\* and the 1-based index of the step it names
pause(workflow) ==
    LET first_step_not_succeeded == get_pending_step(workflow)
        i == first_step_not_succeeded[1][1]
        status == first_step_not_succeeded[1][2]
        step == workflow.steps[i + 1]
        task_runs == step.task_runs
    IN  IF /\ first_step_not_succeeded # None
           /\ status \notin {SUCCESS, FAILURE}
           /\ Len(task_runs) > 0
        THEN [paused |-> TRUE, task_id |-> Last(task_runs).task_id, step |-> i + 1]
        ELSE [paused |-> FALSE, task_id |-> 0, step |-> 0]

\* app.control.revoke(task_id, terminate=True) asks the worker to stop the
\* unit; a unit that has finished is out of its reach
Pause ==
    /\ eng # None
    /\ LET workflow == eng[1]
           out == pause(workflow)
           step == workflow.steps[out.step]
       IN  IF out.paused
           THEN /\ units' = [units EXCEPT ![out.task_id].revoke =
                                              (@ \/ units[out.task_id].phase # "done")]
                /\ last' = [NoOp EXCEPT !.op = "pause", !.ret = "paused",
                                        !.revoked = <<out.task_id>>, !.col = wf_col,
                                        !.info = Some([task_id |-> out.task_id,
                                                       task |-> step.task,
                                                       name |-> step.name])]
           ELSE /\ units' = units
                /\ last' = [NoOp EXCEPT !.op = "pause", !.ret = "not paused",
                                        !.col = wf_col]
    /\ UNCHANGED <<wf_col, eng, clock>>

\* as resume, without the check of the pending step's status
resume_any_status(workflow, force, args) ==
    LET first_step_not_succeeded == get_pending_step(workflow)
        i == first_step_not_succeeded[1][1]
        step == workflow.steps[i + 1]
        task_inst == get_last_run_task_instance(step)
        task_args == IF task_inst # None THEN task_inst[1].args ELSE args[1]
    IN  IF first_step_not_succeeded # None
        THEN IF task_inst = None /\ args = None
             THEN [ret |-> "AssertionError", step |-> 0, task_args |-> <<>>]
             ELSE [ret |-> "resumed", step |-> i + 1, task_args |-> task_args]
        ELSE [ret |-> "not resumed", step |-> 0, task_args |-> <<>>]

\* as resume, sending the first step as start does
resume_first_step(workflow, force, args) ==
    LET first_step_not_succeeded == get_pending_step(workflow)
        status == first_step_not_succeeded[1][2]
        step == workflow.steps[1]
        task_inst == get_last_run_task_instance(step)
        task_args == IF task_inst # None THEN task_inst[1].args ELSE args[1]
    IN  IF /\ first_step_not_succeeded # None
           /\ (status \in {FAILURE, REVOKED} \/ force)
        THEN IF task_inst = None /\ args = None
             THEN [ret |-> "AssertionError", step |-> 0, task_args |-> <<>>]
             ELSE [ret |-> "resumed", step |-> 1, task_args |-> task_args]
        ELSE [ret |-> "not resumed", step |-> 0, task_args |-> <<>>]

\* as resume, preferring the caller's args to those of the last run
resume_caller_args_first(workflow, force, args) ==
    LET first_step_not_succeeded == get_pending_step(workflow)
        i == first_step_not_succeeded[1][1]
        status == first_step_not_succeeded[1][2]
        step == workflow.steps[i + 1]
        task_inst == get_last_run_task_instance(step)
        task_args == IF args # None THEN args[1] ELSE task_inst[1].args
    IN  IF /\ first_step_not_succeeded # None
           /\ (status \in {FAILURE, REVOKED} \/ force)
        THEN IF task_inst = None /\ args = None
             THEN [ret |-> "AssertionError", step |-> 0, task_args |-> <<>>]
             ELSE [ret |-> "resumed", step |-> i + 1, task_args |-> task_args]
        ELSE [ret |-> "not resumed", step |-> 0, task_args |-> <<>>]

\* as resume, a forced resume without a pending step sending the first step
resume_forced_without_pending(workflow, force, args) ==
    LET first_step_not_succeeded == get_pending_step(workflow)
        i == IF first_step_not_succeeded # None THEN first_step_not_succeeded[1][1] ELSE 0
        status == IF first_step_not_succeeded # None
                  THEN first_step_not_succeeded[1][2] ELSE PENDING
        step == workflow.steps[i + 1]
        task_inst == get_last_run_task_instance(step)
        task_args == IF task_inst # None THEN task_inst[1].args ELSE args[1]
    IN  IF status \in {FAILURE, REVOKED} \/ force
        THEN IF task_inst = None /\ args = None
             THEN [ret |-> "AssertionError", step |-> 0, task_args |-> <<>>]
             ELSE [ret |-> "resumed", step |-> i + 1, task_args |-> task_args]
        ELSE [ret |-> "not resumed", step |-> 0, task_args |-> <<>>]

\* as resume, asserting that the step has a last run whatever args are given
resume_needing_last_run(workflow, force, args) ==
    LET first_step_not_succeeded == get_pending_step(workflow)
        i == first_step_not_succeeded[1][1]
        status == first_step_not_succeeded[1][2]
        step == workflow.steps[i + 1]
        task_inst == get_last_run_task_instance(step)
    IN  IF /\ first_step_not_succeeded # None
           /\ (status \in {FAILURE, REVOKED} \/ force)
        THEN IF task_inst = None
             THEN [ret |-> "AssertionError", step |-> 0, task_args |-> <<>>]
             ELSE [ret |-> "resumed", step |-> i + 1, task_args |-> task_inst[1].args]
        ELSE [ret |-> "not resumed", step |-> 0, task_args |-> <<>>]

\* what resume(force, args) decides on self.workflow; args is None or
\* Some(list).  ret is "not resumed", "AssertionError" or "resumed", and then
\* step is the 1-based index of the step to send and task_args its arguments
resume(workflow, force, args) ==
    LET first_step_not_succeeded == get_pending_step(workflow)
        i == first_step_not_succeeded[1][1]
        status == first_step_not_succeeded[1][2]
        step == workflow.steps[i + 1]
        task_inst == get_last_run_task_instance(step)
        task_args == IF task_inst # None THEN task_inst[1].args ELSE args[1]
    IN  IF /\ first_step_not_succeeded # None
           /\ (status \in {FAILURE, REVOKED} \/ force)
        THEN IF task_inst = None /\ args = None
             THEN [ret |-> "AssertionError", step |-> 0, task_args |-> <<>>]
             ELSE [ret |-> "resumed", step |-> i + 1, task_args |-> task_args]
        ELSE [ret |-> "not resumed", step |-> 0, task_args |-> <<>>]

Resume(force, args) ==
    /\ eng # None
    /\ LET workflow == eng[1]
           out == resume(workflow, force, args)
           step == workflow.steps[out.step]
           task_id == Len(units) + 1
           called == [NoOp EXCEPT !.op = "resume", !.force = force, !.args = args,
                                  !.col = wf_col]
       IN  IF out.ret = "resumed"
           THEN /\ Messages < MaxMessages
                /\ units' = Append(units, new_unit(step.task, out.task_args, workflow.id,
                                                   step.name, 0))
                /\ last' = [called EXCEPT !.ret = "resumed", !.sent = <<task_id>>,
                                          !.info = Some([task_id |-> 0,
                                                         task |-> step.task,
                                                         name |-> step.name])]
           ELSE IF out.ret = "AssertionError"
           THEN /\ units' = units
                /\ last' = [called EXCEPT !.err = "AssertionError"]
           ELSE /\ units' = units
                /\ last' = [called EXCEPT !.ret = "not resumed"]
    /\ UNCHANGED <<wf_col, eng, clock>>

GetWorkflowStatus ==
    /\ eng # None
    /\ last' = [NoOp EXCEPT !.op = "get_workflow_status",
                            !.ret = get_workflow_status(eng[1]), !.col = wf_col]
    /\ UNCHANGED <<wf_col, units, eng, clock>>

----------------------------------------------------------------------------
(* WorkflowTask hooks, run by the worker around a unit *)

\* as on_step_start, setting task_runs to the new record alone
on_step_start_replacing_runs(workflow, step_name, task_id, now) ==
    LET k == get_step(workflow, step_name)
    IN  [workflow EXCEPT
            !.steps[k].task_runs = <<[date_start |-> now, task_id |-> task_id]>>,
            !.updated_at = now + 1]

\* as on_step_start, appending the run record to the first step
on_step_start_first_step(workflow, step_name, task_id, now) ==
    [workflow EXCEPT
        !.steps[1].task_runs = Append(@, [date_start |-> now, task_id |-> task_id]),
        !.updated_at = now + 1]

\* the document on_step_start leaves in self.workflow and update() writes
on_step_start(workflow, step_name, task_id, now) ==
    LET k == get_step(workflow, step_name)
    IN  [workflow EXCEPT
            !.steps[k].task_runs = Append(@, [date_start |-> now, task_id |-> task_id]),
            !.updated_at = now + 1]

\* as update, pushing the run records the instance added onto the stored
\* task_runs instead of setting the stored steps to the instance's
update_pushing_new_runs(workflow) ==
    LET stored == wf_col[workflow.id]
        added(i) == SelectSeq(workflow.steps[i].task_runs,
                              LAMBDA r : r \notin Range(stored.steps[i].task_runs))
    IN  [wf_col EXCEPT ![workflow.id] =
            [workflow EXCEPT !.steps =
                [i \in DOMAIN stored.steps |->
                    [stored.steps[i] EXCEPT !.task_runs = @ \o added(i)]]]]

\* update(): update_one({'_id': id}, {'$set': self.workflow}) sets every
\* field of the stored document to the instance's
update(workflow) == [wf_col EXCEPT ![workflow.id] = workflow]

\* before_start up to the construction of Workflow(self.app, workflow_id):
\* update_progress stores PROGRESS, the constructor loads the document
BeforeStart(t) ==
    /\ units[t].phase = "queued"
    /\ units[t].workflow_id \in DOMAIN wf_col
    /\ units' = [units EXCEPT ![t].status = PROGRESS, ![t].stored = TRUE,
                              ![t].workflow = Some(wf_col[units[t].workflow_id]),
                              ![t].phase = "loaded"]
    /\ last' = [NoOp EXCEPT !.op = "before_start", !.unit = t, !.col = wf_col]
    /\ UNCHANGED <<wf_col, eng, clock>>

\* the rest of before_start: self.workflow.on_step_start(kwargs['step'], task_id)
OnStepStart(t) ==
    /\ units[t].phase = "loaded"
    /\ LET workflow == on_step_start(units[t].workflow[1], units[t].step, t, clock)
       IN  /\ wf_col' = update(workflow)
           /\ units' = [units EXCEPT ![t].workflow = Some(workflow), ![t].phase = "running"]
    /\ clock' = clock + 2
    /\ last' = [NoOp EXCEPT !.op = "on_step_start", !.unit = t, !.col = wf_col,
                            !.loaded = units[t].workflow]
    /\ UNCHANGED eng

\* on_success(retval, ...): self.workflow.on_step_success(retval, kwargs['step']);
\* retval is what the task body returned, accepted whether send_task takes
\* the message or raises
OnSuccess(t, retval, accepted) ==
    /\ units[t].phase = "succeeded"
    /\ LET workflow == units[t].workflow[1]
           next_step == get_next_step(workflow, units[t].step)
           task_id == Len(units) + 1
           done == [units EXCEPT ![t].phase = "done", ![t].revoke = FALSE,
                                ![t].workflow = None]
           called == [NoOp EXCEPT !.op = "on_success", !.unit = t,
                                  !.args = Some(retval), !.col = wf_col]
       IN  IF next_step # None
           THEN IF Len(retval) = 0
                THEN /\ units' = done
                     /\ last' = [called EXCEPT !.err = "IndexError"]
                ELSE IF accepted
                THEN /\ Messages < MaxMessages
                     /\ units' = Append(done, new_unit(next_step[1].task, <<retval[1]>>,
                                                       workflow.id, next_step[1].name, t))
                     /\ last' = [called EXCEPT !.sent = <<task_id>>]
                ELSE /\ units' = done
                     /\ last' = [called EXCEPT !.err = "OperationalError"]
           ELSE /\ units' = done
                /\ last' = called
    /\ UNCHANGED <<wf_col, eng, clock>>

----------------------------------------------------------------------------
(* The worker and the result backend, out of the engine's hands *)

\* task_track_started: the worker stores STARTED when it takes the message
TrackStarted(t) ==
    /\ units[t].phase = "queued"
    /\ units[t].status \in {PENDING, RETRY}
    /\ units' = [units EXCEPT ![t].status = STARTED, ![t].stored = TRUE]
    /\ last' = Backend
    /\ UNCHANGED <<wf_col, eng, clock>>

\* the task body returns: SUCCESS is stored, then on_success runs with the
\* return value
Succeed(t) ==
    /\ units[t].phase = "running"
    /\ units' = [units EXCEPT ![t].status = SUCCESS, ![t].phase = "succeeded",
                              ![t].outcome = SUCCESS]
    /\ last' = Backend
    /\ UNCHANGED <<wf_col, eng, clock>>

\* the task body raises
Fail(t) ==
    /\ units[t].phase = "running"
    /\ units' = [units EXCEPT ![t].status = FAILURE, ![t].phase = "done",
                              ![t].revoke = FALSE, ![t].workflow = None,
                              ![t].outcome = FAILURE]
    /\ last' = Backend
    /\ UNCHANGED <<wf_col, eng, clock>>

\* the task body asks for a retry: RETRY is stored and the message, with the
\* same task_id, goes back on the broker
Retry(t) ==
    /\ units[t].phase = "running"
    /\ Messages < MaxMessages
    /\ units' = [units EXCEPT ![t].status = RETRY, ![t].phase = "queued",
                              ![t].retries = @ + 1]
    /\ last' = Backend
    /\ UNCHANGED <<wf_col, eng, clock>>

\* a requested revoke(terminate=True) takes effect; it is best effort
Revoked(t) ==
    /\ units[t].revoke
    /\ units[t].phase \in {"queued", "loaded", "running"}
    /\ units' = [units EXCEPT ![t].status = REVOKED, ![t].stored = TRUE,
                              ![t].phase = "done", ![t].revoke = FALSE, ![t].workflow = None,
                              ![t].outcome = REVOKED]
    /\ last' = Backend
    /\ UNCHANGED <<wf_col, eng, clock>>

\* the stored record of a finished unit expires: get_status then answers
\* PENDING and find_one answers None
Expire(t) ==
    /\ units[t].phase = "done"
    /\ units[t].stored
    /\ units' = [units EXCEPT ![t].status = PENDING, ![t].stored = FALSE]
    /\ last' = Backend
    /\ UNCHANGED <<wf_col, eng, clock>>

----------------------------------------------------------------------------
(* Specifications *)

ValidStepLists == {steps \in StepLists : steps_assertions(steps) = "none"}

\* step names are labels: the engine is started on the valid step lists whose
\* names come in alphabetical order from "a"
StepNames == <<"a", "b", "c">>
OrderedStepLists ==
    {steps \in ValidStepLists :
        /\ Len(steps) <= Len(StepNames)
        /\ \A i \in DOMAIN steps : steps[i].name = StepNames[i]}

\* the engine and its backend, from a workflow just created
Init ==
    /\ units = <<>>
    /\ clock = 2
    /\ \E steps \in OrderedStepLists, id \in WorkflowIds :
          LET workflow == new_workflow(id, steps, 1)
          IN  /\ wf_col = (id :> workflow)
              /\ eng = Some(workflow)
              /\ last = [NoOp EXCEPT !.op = "create", !.steps = steps, !.unit = id]

Next ==
    \/ \E id \in WorkflowIds : Load(id)
    \/ \E args \in ArgLists : Start(args)
    \/ Pause
    \/ \E force \in BOOLEAN, args \in {None} \cup {Some(a) : a \in ArgLists} :
          Resume(force, args)
    \/ GetWorkflowStatus
    \/ \E t \in DOMAIN units : BeforeStart(t)
    \/ \E t \in DOMAIN units : OnStepStart(t)
    \/ \E t \in DOMAIN units, retval \in RetVals, accepted \in BOOLEAN :
          OnSuccess(t, retval, accepted)
    \/ \E t \in DOMAIN units : TrackStarted(t)
    \/ \E t \in DOMAIN units : Succeed(t)
    \/ \E t \in DOMAIN units : Fail(t)
    \/ \E t \in DOMAIN units : Retry(t)
    \/ \E t \in DOMAIN units : Revoked(t)
    \/ \E t \in DOMAIN units : Expire(t)

Spec == Init /\ [][Next]_vars

\* the constructor on its own, from an empty collection
CreateInit ==
    /\ wf_col = <<>>
    /\ units = <<>>
    /\ eng = None
    /\ clock = 1
    /\ last = NoOp

\* a caller whose constructor raised stops there
CreateNext ==
    /\ last.err = "none"
    /\ \/ \E steps \in StepLists : Create(steps)
       \/ GetWorkflowStatus

CreateSpec == CreateInit /\ [][CreateNext]_vars

\* the status derivation on its own: a workflow with any run history of at
\* most MaxHist runs a step, the backend reporting any status for the latest
\* run of each step and SUCCESS or FAILURE for the runs before it
Histories ==
    {h \in SeqsUpTo(States, MaxHist) :
        \A j \in 1..(Len(h) - 1) : h[j] \in {SUCCESS, FAILURE}}

\* the task_id of run j of step i when run histories are laid out step by step
RunId(hist, i, j) ==
    Cardinality({<<k, l>> \in (1..(i - 1)) \X (1..MaxHist) : l <= Len(hist[k])}) + j

StatusInit ==
    \E steps \in OrderedStepLists :
       \E hist \in [DOMAIN steps -> Histories] :
          LET workflow ==
                  [new_workflow(1, steps, 0) EXCEPT
                      !.steps = [i \in DOMAIN steps |->
                                   [@[i] EXCEPT !.task_runs =
                                       [j \in DOMAIN hist[i] |->
                                           [date_start |-> 0,
                                            task_id |-> RunId(hist, i, j)]]]]]
              runs == {<<i, j>> \in (DOMAIN steps) \X (1..MaxHist) : j <= Len(hist[i])}
          IN  /\ wf_col = (1 :> workflow)
              /\ eng = Some(workflow)
              /\ units = [t \in 1..Cardinality(runs) |->
                            LET r == CHOOSE r \in runs : RunId(hist, r[1], r[2]) = t
                            IN  [new_unit(steps[r[1]].task, <<>>, 1, steps[r[1]].name, 0)
                                   EXCEPT !.phase = "done", !.stored = TRUE,
                                          !.status = hist[r[1]][r[2]],
                                          !.outcome = hist[r[1]][r[2]],
                                          !.prior = TRUE]]
              /\ clock = 1
              /\ last = NoOp

StatusNext == last.op = "none" /\ GetWorkflowStatus

StatusSpec == StatusInit /\ [][StatusNext]_vars

\* one run of a workflow to its end: start is called once, there is no pause
\* and no resume, and the backend reports SUCCESS for every unit it was sent,
\* after any retries the task asks for; the message budget lets a workflow of
\* up to MaxMessages steps run to its end
LiveInit ==
    /\ Init
    /\ Len(eng[1].steps) <= MaxMessages

LiveStart == units = <<>> /\ \E args \in ArgLists : Start(args)

\* the caller loads the workflow by its id
LiveLoad == Load(eng[1].id)

LiveNext ==
    \/ LiveStart
    \/ LiveLoad
    \/ GetWorkflowStatus
    \/ \E t \in DOMAIN units : BeforeStart(t)
    \/ \E t \in DOMAIN units : OnStepStart(t)
    \/ \E t \in DOMAIN units, retval \in RetVals, accepted \in BOOLEAN :
          OnSuccess(t, retval, accepted)
    \/ \E t \in DOMAIN units : TrackStarted(t)
    \/ \E t \in DOMAIN units : Succeed(t)
    \/ \E t \in DOMAIN units : Retry(t)

\* the caller calls start and keeps loading the workflow and asking for its
\* status; the worker takes every message, runs the hooks around the task
\* body, and the task body returns
LiveSpec ==
    /\ LiveInit
    /\ [][LiveNext]_vars
    /\ WF_vars(LiveStart)
    /\ WF_vars(LiveLoad)
    /\ WF_vars(GetWorkflowStatus)
    /\ WF_vars(\E t \in DOMAIN units : BeforeStart(t))
    /\ WF_vars(\E t \in DOMAIN units : OnStepStart(t))
    /\ WF_vars(\E t \in DOMAIN units : Succeed(t))
    /\ WF_vars(\E t \in DOMAIN units, retval \in RetVals, accepted \in BOOLEAN :
                  OnSuccess(t, retval, accepted))

\* resuming a stopped workflow: start was called once, the unit of the first
\* step ran, its before-run hook recorded the run, and the backend reported
\* it FAILURE or REVOKED; the caller has loaded the workflow and from here on
\* calls resume without force only
ResumeInit ==
    \E steps \in OrderedStepLists, id \in WorkflowIds, args \in ArgLists,
       status \in {FAILURE, REVOKED} :
       LET workflow == on_step_start(new_workflow(id, steps, 1), steps[1].name, 1, 2)
       IN  /\ wf_col = (id :> workflow)
           /\ eng = Some(workflow)
           /\ units = <<[new_unit(steps[1].task, args, id, steps[1].name, 0)
                           EXCEPT !.phase = "done", !.stored = TRUE, !.status = status,
                                  !.outcome = status, !.prior = TRUE]>>
           /\ clock = 4
           /\ last = [NoOp EXCEPT !.op = "load", !.unit = id, !.col = wf_col]

ResumeNext ==
    \/ \E id \in WorkflowIds : Load(id)
    \/ Pause
    \/ \E args \in {None} \cup {Some(a) : a \in ArgLists} : Resume(FALSE, args)
    \/ GetWorkflowStatus
    \/ \E t \in DOMAIN units : BeforeStart(t)
    \/ \E t \in DOMAIN units : OnStepStart(t)
    \/ \E t \in DOMAIN units, retval \in RetVals, accepted \in BOOLEAN :
          OnSuccess(t, retval, accepted)
    \/ \E t \in DOMAIN units : TrackStarted(t)
    \/ \E t \in DOMAIN units : Succeed(t)
    \/ \E t \in DOMAIN units : Fail(t)
    \/ \E t \in DOMAIN units : Retry(t)
    \/ \E t \in DOMAIN units : Revoked(t)
    \/ \E t \in DOMAIN units : Expire(t)

ResumeSpec == ResumeInit /\ [][ResumeNext]_vars

\* pausing a workflow: start is called once, the caller loads the workflow and
\* calls pause, and resume is never called
PauseNext ==
    \/ LiveStart
    \/ \E id \in WorkflowIds : Load(id)
    \/ Pause
    \/ GetWorkflowStatus
    \/ \E t \in DOMAIN units : BeforeStart(t)
    \/ \E t \in DOMAIN units : OnStepStart(t)
    \/ \E t \in DOMAIN units, retval \in RetVals, accepted \in BOOLEAN :
          OnSuccess(t, retval, accepted)
    \/ \E t \in DOMAIN units : TrackStarted(t)
    \/ \E t \in DOMAIN units : Succeed(t)
    \/ \E t \in DOMAIN units : Fail(t)
    \/ \E t \in DOMAIN units : Retry(t)
    \/ \E t \in DOMAIN units : Revoked(t)
    \/ \E t \in DOMAIN units : Expire(t)

PauseSpec == Init /\ [][PauseNext]_vars

----------------------------------------------------------------------------
(* What the claims speak of *)

\* the status of a step as the backend reports it for its latest run record
LatestStatus(step) ==
    IF step.task_runs = <<>> THEN PENDING
    ELSE units[step.task_runs[Len(step.task_runs)].task_id].status

LatestStatuses(workflow) == [i \in DOMAIN workflow.steps |-> LatestStatus(workflow.steps[i])]

AllSucceeded(v) == \A i \in DOMAIN v : v[i] = SUCCESS

\* the first position of v, in definition order, that is not SUCCESS
FirstNotSucceeded(v) ==
    CHOOSE i \in DOMAIN v : v[i] # SUCCESS /\ \A j \in 1..(i - 1) : v[j] = SUCCESS

\* the workflow status the branch table gives for the statuses v of the steps
TableStatus(v) ==
    IF AllSucceeded(v) THEN SUCCESS
    ELSE LET i == FirstNotSucceeded(v)
         IN  CASE i = 1 /\ v[i] = PENDING -> PENDING
               [] ~(i = 1 /\ v[i] = PENDING) /\ v[i] \in {STARTED, RETRY, PENDING} -> STARTED
               [] OTHER -> v[i]

\* C1: for every run history and every backend status of the latest run of
\* each step, get_workflow_status returns the status of the branch table
\* applied to the latest statuses alone: SUCCESS exactly when all are SUCCESS,
\* and never RETRY
C1_StatusDerivation ==
    last.op = "get_workflow_status" =>
        LET v == LatestStatuses(eng[1])
        IN  /\ last.ret = TableStatus(v)
            /\ (last.ret = SUCCESS <=> AllSucceeded(v))
            /\ last.ret # RETRY

\* a step with two runs, an earlier step succeeded, the first unsucceeded
\* step in RETRY: the status returned is STARTED
C1_Witness ==
    /\ last.op = "get_workflow_status"
    /\ last.ret = STARTED
    /\ \E i \in DOMAIN eng[1].steps :
          /\ i > 1
          /\ Len(eng[1].steps[i].task_runs) = 2
          /\ LatestStatus(eng[1].steps[i]) = RETRY
          /\ \A j \in 1..(i - 1) : LatestStatus(eng[1].steps[j]) = SUCCESS

\* a step list as the constructor expects it: not empty, every step with a
\* name and a task
IsStepList(steps) ==
    /\ steps # <<>>
    /\ \A i \in DOMAIN steps : steps[i].name # Absent /\ steps[i].task # Absent

NamesNonEmpty(steps) == \A i \in DOMAIN steps : steps[i].name # ""

NamesDistinct(steps) ==
    \A i, j \in DOMAIN steps : i # j => steps[i].name # steps[j].name

\* C2: creating a workflow from a step list with non-empty, pairwise distinct
\* names succeeds, inserts exactly one document (the instance's own), and
\* get_workflow_status on the new instance is PENDING
C2_CreateThenPending ==
    /\ last.op = "create" /\ IsStepList(last.steps) /\ NamesNonEmpty(last.steps)
          /\ NamesDistinct(last.steps)
       => /\ last.err = "none"
          /\ Cardinality(DOMAIN wf_col) = Cardinality(DOMAIN last.col) + 1
          /\ \A id \in DOMAIN last.col : wf_col[id] = last.col[id]
          /\ last.unit \in DOMAIN wf_col \ DOMAIN last.col
          /\ eng = Some(wf_col[last.unit])
          /\ [i \in DOMAIN last.steps |-> wf_col[last.unit].steps[i].name]
                = [i \in DOMAIN last.steps |-> last.steps[i].name]
          /\ get_workflow_status(eng[1]) = PENDING
    /\ last.op = "get_workflow_status" /\ units = <<>> => last.ret = PENDING

\* a workflow of two steps or more was created and its status queried
C2_Witness ==
    /\ last.op = "get_workflow_status"
    /\ last.ret = PENDING
    /\ Cardinality(DOMAIN wf_col) = 1
    /\ Len(eng[1].steps) >= 2

\* C3: creating from a step list that is empty, has a step without name or
\* task, has an empty name, or has two steps of one name ends in an error,
\* and the collection is as it was before
C3_FailedCreatePersistsNothing ==
    last.op = "create" =>
        /\ ( \/ last.steps = <<>>
             \/ \E i \in DOMAIN last.steps :
                   \/ last.steps[i].name = Absent
                   \/ last.steps[i].task = Absent
                   \/ last.steps[i].name = ""
             \/ ~NamesDistinct(last.steps) )
           => last.err # "none"
        /\ last.err # "none" => wf_col = last.col

\* a creation with duplicate names failed while the collection held a document
C3_Witness ==
    /\ last.op = "create"
    /\ last.err = "AssertionError"
    /\ last.ret = "Steps with duplicate names"
    /\ DOMAIN wf_col # {}
    /\ wf_col = last.col

\* the one workflow document of Spec
Stored == wf_col[CHOOSE id \in DOMAIN wf_col : TRUE]

\* the position of the step of that name
StepIndex(workflow, name) == CHOOSE i \in DOMAIN workflow.steps : workflow.steps[i].name = name

\* the units a caller sent, by start or by resume
CallerUnits == {t \in DOMAIN units : units[t].parent = 0}

C5_DispatchesSuccessorOnly ==
    last.op = "on_success" =>
        LET t == last.unit
            w == wf_col[units[t].workflow_id]
            k == StepIndex(w, units[t].step)
            R == last.args[1]
        IN  /\ Len(last.sent) <= 1
            /\ \A n \in DOMAIN last.sent :
                  /\ last.sent[n] = Len(units)
                  /\ k < Len(w.steps)
                  /\ R # <<>>
                  /\ units[last.sent[n]].task = w.steps[k + 1].task
                  /\ units[last.sent[n]].args = <<R[1]>>
                  /\ units[last.sent[n]].workflow_id = w.id
                  /\ units[last.sent[n]].step = w.steps[k + 1].name
            /\ k < Len(w.steps) /\ R # <<>> /\ last.err # "OperationalError"
                  => Len(last.sent) = 1 /\ last.err = "none"
            /\ k = Len(w.steps) => last.sent = <<>> /\ last.err = "none"

\* the hook of a unit of the first of three steps, returning two values, has
\* sent the second step
C5_Witness ==
    /\ last.op = "on_success"
    /\ Len(last.args[1]) = 2
    /\ Len(Stored.steps) = 3
    /\ units[last.unit].step = Stored.steps[1].name
    /\ Len(last.sent) = 1
    /\ units[last.sent[1]].step = Stored.steps[2].name

\* what the claims call the pending step of the instance's document: the
\* first step whose latest status is not SUCCESS, 0 when there is none
PendingIndex(workflow) ==
    LET v == LatestStatuses(workflow)
    IN  IF AllSucceeded(v) THEN 0 ELSE FirstNotSucceeded(v)

\* C6: pause() issues exactly one cancel, for the task_id of the latest run
\* record of the pending step, and returns paused: true naming that step, if
\* and only if there is a pending step, its status is neither SUCCESS nor
\* FAILURE and it has a run record; otherwise it cancels nothing and returns
\* paused: false
C6_PauseCancelsLatestRun ==
    last.op = "pause" =>
        LET w == eng[1]
            p == PendingIndex(w)
        IN  IF /\ p # 0
               /\ LatestStatus(w.steps[p]) \notin {SUCCESS, FAILURE}
               /\ w.steps[p].task_runs # <<>>
            THEN /\ last.ret = "paused"
                 /\ last.revoked = <<w.steps[p].task_runs[Len(w.steps[p].task_runs)].task_id>>
                 /\ last.info = Some([task_id |-> last.revoked[1],
                                      task |-> w.steps[p].task,
                                      name |-> w.steps[p].name])
            ELSE /\ last.ret = "not paused"
                 /\ last.revoked = <<>>
                 /\ last.info = None

\* pause() has cancelled the latest run of a pending step reported STARTED
C6_Witness ==
    /\ last.op = "pause"
    /\ last.ret = "paused"
    /\ Len(last.revoked) = 1
    /\ units[last.revoked[1]].status = STARTED
    /\ units[last.revoked[1]].revoke

\* C7 as stated: resume(force=false) without args returns resumed: false when
\* every step succeeded, fails with a validation error when the pending step
\* is PENDING and was never run, and sends a unit only when the pending
\* step's status is FAILURE or REVOKED
C7_AsStated ==
    last.op = "resume" /\ ~last.force =>
        LET w == eng[1]
            p == PendingIndex(w)
        IN  /\ last.args = None /\ p = 0
                  => last.ret = "not resumed" /\ last.sent = <<>>
            /\ last.args = None /\ p # 0 /\ w.steps[p].task_runs = <<>>
                  => last.err = "AssertionError" /\ last.sent = <<>>
            /\ last.sent # <<>>
                  => p # 0 /\ LatestStatus(w.steps[p]) \in {FAILURE, REVOKED}

\* C7, amended: resume(force=false) returns resumed: false, without error and
\* without sending a unit, when every step succeeded and whenever the pending
\* step's status is neither FAILURE nor REVOKED, a never-run PENDING step
\* included; it sends a unit only when that status is FAILURE or REVOKED
C7_NotForcedNeedsFailure ==
    last.op = "resume" /\ ~last.force =>
        LET w == eng[1]
            p == PendingIndex(w)
        IN  /\ (p = 0 \/ (p # 0 /\ LatestStatus(w.steps[p]) \notin {FAILURE, REVOKED}))
                  => last.ret = "not resumed" /\ last.err = "none" /\ last.sent = <<>>
            /\ last.sent # <<>>
                  => p # 0 /\ LatestStatus(w.steps[p]) \in {FAILURE, REVOKED}

\* resume(force=false) without args on a never-run pending step has returned
\* resumed: false
C7_Witness ==
    /\ last.op = "resume"
    /\ ~last.force
    /\ last.args = None
    /\ PendingIndex(eng[1]) # 0
    /\ eng[1].steps[PendingIndex(eng[1])].task_runs = <<>>
    /\ last.ret = "not resumed"
    /\ last.err = "none"

\* C8: resume(force=true, args=X) on an instance whose pending step has no run
\* record sends exactly one unit, the pending step's task with arguments X,
\* workflow_id the workflow's id and step the pending step's name, and returns
\* resumed: true naming that step
C8_ForcedResumeSendsArgs ==
    LET w == eng[1]
        p == PendingIndex(w)
    IN  ( /\ last.op = "resume"
          /\ last.force
          /\ last.args # None
          /\ p # 0
          /\ w.steps[p].task_runs = <<>> )
        => /\ last.err = "none"
           /\ last.ret = "resumed"
           /\ Len(last.sent) = 1
           /\ last.sent[1] = Len(units)
           /\ units[last.sent[1]].task = w.steps[p].task
           /\ units[last.sent[1]].args = last.args[1]
           /\ units[last.sent[1]].workflow_id = w.id
           /\ units[last.sent[1]].step = w.steps[p].name
           /\ last.info = Some([task_id |-> 0, task |-> w.steps[p].task,
                                name |-> w.steps[p].name])

\* a forced resume with arguments has sent the never-run second step
C8_Witness ==
    /\ last.op = "resume"
    /\ last.force
    /\ last.args = Some(<<1>>)
    /\ PendingIndex(eng[1]) = 2
    /\ eng[1].steps[2].task_runs = <<>>
    /\ Len(last.sent) = 1
    /\ units[last.sent[1]].args = <<1>>

\* C9: when resume goes on to send the pending step (its status FAILURE or
\* REVOKED, or force set), the arguments sent are those the backend stores
\* for the step's latest run if the step has a run record with a stored
\* record, the caller's args if it has none and args are given, and without
\* either resume fails with a validation error and sends nothing
C9_ResumeArguments ==
    LET w == eng[1]
        p == PendingIndex(w)
        runs == w.steps[p].task_runs
        latest == runs[Len(runs)].task_id
    IN  ( /\ last.op = "resume"
          /\ p # 0
          /\ (LatestStatus(w.steps[p]) \in {FAILURE, REVOKED} \/ last.force) )
        => IF runs # <<>> /\ units[latest].stored
           THEN /\ Len(last.sent) = 1
                /\ units[last.sent[1]].args = units[latest].args
           ELSE IF last.args # None
           THEN /\ Len(last.sent) = 1
                /\ units[last.sent[1]].args = last.args[1]
           ELSE /\ last.err = "AssertionError"
                /\ last.sent = <<>>

\* resume has re-sent a failed step with the arguments of its last run, the
\* caller having given other arguments
C9_Witness ==
    LET w == eng[1]
        p == PendingIndex(w)
        runs == w.steps[p].task_runs
    IN  /\ last.op = "resume"
        /\ p # 0
        /\ runs # <<>>
        /\ LatestStatus(w.steps[p]) = FAILURE
        /\ last.args # None
        /\ Len(last.sent) = 1
        /\ units[last.sent[1]].args = units[runs[Len(runs)].task_id].args
        /\ units[last.sent[1]].args # last.args[1]

\* C10: start, pause, resume, the after-success hook, the status query and
\* the load of a document leave the collection as it was; a completed
\* before-run hook of unit t writes the document it loaded with exactly one
\* run record, of task_id t and a date_start, appended to the step t names
\* and nothing else changed in any step, which is the very change of the
\* stored document when no one wrote it since the hook loaded it
C10_OnlyBeforeRunWrites ==
    /\ last.op \in {"start", "pause", "resume", "on_success", "get_workflow_status",
                    "load", "before_start"}
          => wf_col = last.col
    /\ last.op = "on_step_start"
          => LET t == last.unit
                 L == last.loaded[1]
                 D == wf_col[L.id]
                 k == StepIndex(L, units[t].step)
                 appended(before) ==
                     /\ DOMAIN D.steps = DOMAIN before.steps
                     /\ \A j \in DOMAIN D.steps :
                           /\ D.steps[j].name = before.steps[j].name
                           /\ D.steps[j].task = before.steps[j].task
                           /\ j # k => D.steps[j].task_runs = before.steps[j].task_runs
                     /\ Len(D.steps[k].task_runs) = Len(before.steps[k].task_runs) + 1
                     /\ SubSeq(D.steps[k].task_runs, 1, Len(before.steps[k].task_runs))
                           = before.steps[k].task_runs
              IN  /\ DOMAIN wf_col = DOMAIN last.col
                  /\ \A id \in DOMAIN wf_col \ {L.id} : wf_col[id] = last.col[id]
                  /\ D.id = L.id
                  /\ appended(L)
                  /\ Last(D.steps[k].task_runs).task_id = t
                  /\ DOMAIN Last(D.steps[k].task_runs) = {"task_id", "date_start"}
                  /\ last.col[L.id] = L => appended(last.col[L.id])

\* the before-run hook of a unit of the second step has appended its run
\* record to a document that already held a run of the first step
C10_Witness ==
    /\ last.op = "on_step_start"
    /\ Len(Stored.steps) >= 2
    /\ units[last.unit].step = Stored.steps[2].name
    /\ Len(Stored.steps[1].task_runs) = 1
    /\ Len(Stored.steps[2].task_runs) = 1
    /\ Stored.steps[2].task_runs[1].task_id = last.unit
    /\ last.col[Stored.id].steps[2].task_runs = <<>>

\* s is an initial segment of t
IsPrefix(s, t) == Len(s) <= Len(t) /\ SubSeq(t, 1, Len(s)) = s

\* C11: each step's persisted task_runs is append-only: whatever operation
\* ran, hooks of two units interleaved included, the task_runs of every step
\* of every stored document extend what they were before the operation, so
\* that no run record is ever removed, reordered or modified
C11_AppendOnly ==
    \A id \in DOMAIN last.col :
       /\ id \in DOMAIN wf_col
       /\ \A i \in DOMAIN last.col[id].steps :
             IsPrefix(last.col[id].steps[i].task_runs, wf_col[id].steps[i].task_runs)

\* unit t succeeded and its after-success hook ended without sending the
\* step after t's: send_task raised, or the return value had no first element
Undispatched(t) ==
    /\ units[t].phase = "done"
    /\ units[t].outcome = SUCCESS
    /\ units[t].step # Last(Stored.steps).name
    /\ \A u \in DOMAIN units : units[u].parent # t

\* the instance holds the persisted document, in which the workflow is left
\* behind unit t: t is the latest run of its step, every step up to it is
\* SUCCESS and the step after it has no run record
LeftBehind(t) ==
    LET k == StepIndex(Stored, units[t].step)
    IN  /\ eng = Some(Stored)
        /\ Undispatched(t)
        /\ Stored.steps[k].task_runs # <<>>
        /\ Last(Stored.steps[k].task_runs).task_id = t
        /\ \A j \in 1..k : LatestStatus(Stored.steps[j]) = SUCCESS
        /\ Stored.steps[k + 1].task_runs = <<>>

\* the status queries show the step after unit t's as the pending step, with
\* status PENDING and no run record
ShownPending(t) ==
    LET k == StepIndex(Stored, units[t].step)
    IN  /\ get_pending_step(eng[1]) = Some(<<k, PENDING>>)
        /\ get_step_status(eng[1].steps[k + 1]) = PENDING
        /\ get_workflow_status(eng[1]) = STARTED

\* the last operation sent one unit, of the step after unit t's
SentNextStep(t) ==
    LET k == StepIndex(Stored, units[t].step)
    IN  /\ last.err = "none"
        /\ last.ret = "resumed"
        /\ Len(last.sent) = 1
        /\ units[last.sent[1]].step = Stored.steps[k + 1].name
        /\ units[last.sent[1]].task = Stored.steps[k + 1].task
        /\ units[last.sent[1]].workflow_id = Stored.id

\* C12 as stated: when the after-success hook of a succeeded step fails to
\* send the next step, the status queries show that step pending with status
\* PENDING and no run record, and resume(force=true) sends it
C12_AsStated ==
    \A t \in DOMAIN units :
       LeftBehind(t) =>
          /\ ShownPending(t)
          /\ last.op = "resume" /\ last.force => SentNextStep(t)

\* C12, amended: in that state the status queries show the next step pending,
\* and resume(force=true, args=X) sends it with arguments X, while
\* resume(force=true) without args fails with a validation error and sends
\* nothing
C12_ForcedResumeRecovers ==
    \A t \in DOMAIN units :
       LeftBehind(t) =>
          /\ ShownPending(t)
          /\ last.op = "resume" /\ last.force /\ last.args # None
                => SentNextStep(t) /\ units[last.sent[1]].args = last.args[1]
          /\ last.op = "resume" /\ last.force /\ last.args = None
                => last.err = "AssertionError" /\ last.sent = <<>>

\* the hook of the first step's unit sent nothing, and a forced resume with
\* arguments has sent the second step
C12_Witness ==
    \E t \in DOMAIN units :
       /\ LeftBehind(t)
       /\ last.op = "resume"
       /\ last.force
       /\ last.args = Some(<<1>>)
       /\ SentNextStep(t)
       /\ units[last.sent[1]].args = <<1>>

\* the run records of step i of document d
Runs(d, i) == Range(d.steps[i].task_runs)

\* C13: the before-run hook writes back the copy it loaded with its own run
\* record appended, whatever was written to the document in between: the
\* persisted steps are then those of the copy, and a run record that another
\* hook wrote between this hook's load and its write is no longer in the
\* persisted document (last writer wins)
C13_LastWriterWins ==
    last.op = "on_step_start" =>
        LET t == last.unit
            L == last.loaded[1]
            B == last.col[L.id]
            D == wf_col[L.id]
            k == StepIndex(L, units[t].step)
        IN  /\ \A i \in DOMAIN D.steps :
                  Runs(D, i) \ {Last(D.steps[k].task_runs)} = Runs(L, i)
            /\ \A i \in DOMAIN B.steps :
                  \A r \in Runs(B, i) \ Runs(L, i) : r \notin Runs(D, i)

\* the before-run hooks of two units of one step have both completed, the
\* second writing a copy loaded before the first wrote, and the persisted
\* document holds the run record of the second only
C13_Witness ==
    /\ last.op = "on_step_start"
    /\ LET t == last.unit
           L == last.loaded[1]
           k == StepIndex(L, units[t].step)
       IN  \E u \in DOMAIN units \ {t} :
              /\ units[u].step = units[t].step
              /\ units[u].phase = "running"
              /\ units[t].phase = "running"
              /\ \E r \in Runs(last.col[L.id], k) : r.task_id = u
              /\ \A r \in Runs(L, k) : r.task_id # u
              /\ {r.task_id : r \in Runs(Stored, k)} = {t}

\* get_workflow_status on the persisted document is SUCCESS
Succeeded == get_workflow_status(Stored) = SUCCESS

\* every unit put on the broker has finished, its hooks included
AllFinished == \A t \in DOMAIN units : units[t].phase = "done"

\* C14 as stated: once get_workflow_status is SUCCESS it is SUCCESS after
\* every start, pause, resume and hook invocation that follows
C14_AsStated ==
    [][Succeeded /\ last'.op # "backend" => Succeeded']_vars

\* the workflow has come to rest in SUCCESS: no unit is unfinished and the
\* caller's instance holds the persisted document
AtRestInSuccess == Succeeded /\ AllFinished /\ eng = Some(Stored)

\* C14, amended: once the workflow is at rest in SUCCESS it stays so after
\* every pause, resume (forced or not), load and status query; start is what
\* takes it out of SUCCESS, and so does a unit still unfinished
C14_SuccessUntilStart ==
    [][AtRestInSuccess /\ last'.op \notin {"start", "backend"} => AtRestInSuccess']_vars

\* a forced resume with arguments on a two-step workflow at rest in SUCCESS
\* has sent nothing
C14_Witness ==
    /\ AtRestInSuccess
    /\ Len(Stored.steps) >= 2
    /\ last.op = "resume"
    /\ last.force
    /\ last.args # None
    /\ last.ret = "not resumed"

\* the before-run hook of unit t has run to its end at least once
HookCompleted(t) == units[t].phase \in {"running", "succeeded", "done"}

\* C15: start performs no status check: whatever the state of the workflow,
\* a call sends exactly one unit, the first step's task with the caller's
\* arguments, workflow_id the workflow's id and step the first step's name,
\* and writes nothing; and when the caller has sent two units of the first
\* step and nothing else was sent, the before-run hook that completes second,
\* having loaded the document after the first one wrote it, leaves step 1
\* with two run records, one for each unit
C15_StartAlwaysDispatches ==
    /\ last.op = "start"
          => LET first_step == eng[1].steps[1]
             IN  /\ last.err = "none"
                 /\ last.sent = <<Len(units)>>
                 /\ units[last.sent[1]].task = first_step.task
                 /\ units[last.sent[1]].args = last.args[1]
                 /\ units[last.sent[1]].workflow_id = eng[1].id
                 /\ units[last.sent[1]].step = first_step.name
                 /\ units[last.sent[1]].phase = "queued"
                 /\ wf_col = last.col
    /\ ( /\ last.op = "on_step_start"
         /\ DOMAIN units = {1, 2}
         /\ \A t \in DOMAIN units :
               /\ units[t].parent = 0
               /\ units[t].step = Stored.steps[1].name
               /\ units[t].retries = 0
               /\ HookCompleted(t)
         /\ last.loaded = Some(last.col[Stored.id]) )
       => /\ Len(Stored.steps[1].task_runs) = 2
          /\ Stored.steps[1].task_runs[1].task_id = 3 - last.unit
          /\ Stored.steps[1].task_runs[2].task_id = last.unit
          /\ Stored.steps[1].task_runs[1] # Stored.steps[1].task_runs[2]

\* start was called on a workflow whose first unit has succeeded, and the
\* before-run hook of the second unit has added the second run record
C15_Witness ==
    /\ last.op = "on_step_start"
    /\ last.unit = 2
    /\ DOMAIN units = {1, 2}
    /\ \A t \in DOMAIN units : units[t].parent = 0
    /\ units[1].outcome = SUCCESS
    /\ units[1].phase = "done"
    /\ last.loaded = Some(last.col[Stored.id])
    /\ Len(Stored.steps[1].task_runs) = 2

\* C16: pause, resume and get_workflow_status decide on the run history that
\* is persisted when they are called, not on a copy an earlier operation
\* loaded: what each returns and sends or cancels is what it would decide on
\* the stored document, also on an instance created before a run record was
\* appended
C16_DecidesOnPersisted ==
    /\ last.op = "get_workflow_status" => last.ret = get_workflow_status(Stored)
    /\ last.op = "pause"
          => LET out == pause(Stored)
             IN  /\ (last.ret = "paused") = out.paused
                 /\ out.paused => last.revoked = <<out.task_id>>
    /\ last.op = "resume"
          => LET out == resume(Stored, last.force, last.args)
             IN  /\ (last.err = "AssertionError") = (out.ret = "AssertionError")
                 /\ (last.ret = "resumed") = (out.ret = "resumed")
                 /\ out.ret = "resumed"
                       => units[last.sent[1]].step = Stored.steps[out.step].name

\* the backend has reported SUCCESS for a unit of step j of the workflow
HadSuccess(j) ==
    \E t \in DOMAIN units :
       units[t].step = Stored.steps[j].name /\ units[t].outcome = SUCCESS

\* C17: steps execute in definition order: a step after the first that has a
\* run record, and any unit of such a step that start, resume (forced or not)
\* or the after-success hook has sent, comes after a run of every earlier
\* step that the backend reported as SUCCESS
C17_StepsInOrder ==
    /\ \A k \in DOMAIN Stored.steps :
          Stored.steps[k].task_runs # <<>> => \A j \in 1..(k - 1) : HadSuccess(j)
    /\ \A u \in DOMAIN units :
          \A j \in 1..(StepIndex(Stored, units[u].step) - 1) : HadSuccess(j)
    /\ \A n \in DOMAIN last.sent :
          \A j \in 1..(StepIndex(Stored, units[last.sent[n]].step) - 1) : HadSuccess(j)

\* a forced resume has sent the second step, whose run is recorded, after the
\* hook of the first step's unit left it undispatched
C17_Witness ==
    /\ Len(Stored.steps) >= 2
    /\ Stored.steps[2].task_runs # <<>>
    /\ units[Last(Stored.steps[2].task_runs).task_id].parent = 0
    /\ units[Last(Stored.steps[2].task_runs).task_id].step = Stored.steps[2].name
    /\ HadSuccess(1)
    /\ last.op = "on_step_start"

\* every step of the persisted document has exactly one run record
OneRunEach == \A i \in DOMAIN Stored.steps : Len(Stored.steps[i].task_runs) = 1

\* get_workflow_status has just returned SUCCESS
ReturnedSuccess == last.op = "get_workflow_status" /\ last.ret = SUCCESS

\* C18 as stated: when start is called once, without pause or resume, and
\* the backend runs every unit to SUCCESS and invokes both hooks for each,
\* get_workflow_status eventually returns SUCCESS with exactly one run record
\* in every step
C18_AsStated == <>(ReturnedSuccess /\ OneRunEach)

\* a task asked for a retry, or an after-success hook ended without sending
\* the next step
RunDisturbed ==
    \E t \in DOMAIN units : units[t].retries > 0 \/ Undispatched(t)

\* C18, amended: ... unless a unit is retried, or the after-success hook of a
\* step that is not the last sends nothing because the task returned no first
\* element or send_task raised, get_workflow_status on an instance that has
\* loaded the persisted document eventually returns SUCCESS with exactly one
\* run record in every step
C18_EventuallySuccess ==
    <>(RunDisturbed \/ (ReturnedSuccess /\ OneRunEach /\ eng = Some(Stored)))

\* both steps of a two-step workflow have run once and succeeded, and the
\* status query on a freshly loaded instance has returned SUCCESS
C18_Witness ==
    /\ ReturnedSuccess
    /\ OneRunEach
    /\ eng = Some(Stored)
    /\ Len(Stored.steps) = 2
    /\ ~RunDisturbed
    /\ \A t \in DOMAIN units : units[t].outcome = SUCCESS

\* the units sent and not yet reported SUCCESS, FAILURE or REVOKED
Outstanding == {t \in DOMAIN units : units[t].outcome = PENDING}

\* C19: when start was called once and resume is only called without force,
\* at most one unit of the workflow is outstanding at any time; in particular
\* of two calls of resume after a step failed or was revoked, the second made
\* before the hook of the unit the first sent has recorded its run, at most
\* one sends the step
C19_OneOutstanding ==
    /\ Cardinality(Outstanding) <= 1
    /\ last.op = "resume" /\ last.sent # <<>> => Outstanding = {last.sent[1]}

\* pause() has returned paused: true naming unit t, which had not finished,
\* and t has not finished since
PausedOn(t) == units[t].revoke

\* C20: once pause() has returned paused: true naming a run of step i, and
\* with resume never called, no operation sends a unit of a step after i,
\* however the backend's completion of that run and its after-success hook
\* interleave with pause
C20_NothingSentWhilePaused ==
    [][\A t \in DOMAIN units :
          PausedOn(t) =>
             \A u \in (DOMAIN units') \ (DOMAIN units) :
                StepIndex(Stored, units'[u].step) <= StepIndex(Stored, units[t].step)]_vars

====
